---------------------------- MODULE Spec2Model ----------------------------
(***************************************************************************)
(* Model of app.py: the tool get_flights_data, its inner class             *)
(* RatingWeights and its inner function calculate_rating.                  *)
(*                                                                         *)
(* Representation of the Python values                                     *)
(*   - a weight is a record [num, den]: the int num when den = 1 (before   *)
(*     normalisation), the float num / den after `w /= weights_sum`; the   *)
(*     float itself is Dbl(weight).                                        *)
(*   - a float is an IEEE-754 binary64 value [neg, m, e], standing for     *)
(*     +-m * 2^e, where m is a natural number of exactly 53 bits written   *)
(*     as a sequence of base-2^14 limbs, least significant first, and 0.0  *)
(*     has m = <<>>.  Division, multiplication and addition round to       *)
(*     nearest, ties to even, as the hardware does.                        *)
(*   - a datetime is naive (no UTC offset, as the API sends it): a number  *)
(*     of seconds since 00:00:00 of day 0.                                 *)
(*   - a price string such as "100.004" is its number of thousandths.      *)
(*   - a rating (a float rounded to 2 decimals) is its number of           *)
(*     hundredths.                                                         *)
(***************************************************************************)
EXTENDS Integers, Sequences, FiniteSets, TLC

\* pc             where the call is: "call" before the API request, "returned"
\*                after the return; "new", "assigned", "corrected" and
\*                "normalized" are the steps of RatingWeights.__init__
\* args           the weight arguments and is_flights_direct of the call
\* rating_weights the five fields of the RatingWeights object
\* response       response.data, the offers the API answered with
\* flights        the list the tool builds and returns
\* apiCalls       the number of flight_offers_search.get requests made
\* caught         whether the except ResponseError branch ran
VARIABLES pc, args, rating_weights, response, flights, apiCalls, caught

vars == <<pc, args, rating_weights, response, flights, apiCalls, caught>>

(***************************************************************************)
(* Program constants.                                                      *)
(***************************************************************************)
minValue == 0
maxValue == 5
Penalty == 20
LateHour == 22
EarlyHour == 6

(***************************************************************************)
(* Bounds of the model.                                                    *)
(***************************************************************************)
\* How far outside [minValue, maxValue] the weight arguments of the
\* RatingWeights specification range.
MaxOver == 1
\* Largest number of offers in response.data.
MaxOffers == 2

WeightNames ==
    {"priceWeight", "durationWeight", "lateArrivalWeight",
     "earlyDepartureWeight", "nonDirectFlightWeight"}

ArgNames ==
    {"price_weight", "duration_weight", "late_arrival_weight",
     "early_departure_weight", "non_direct_flight_weight"}

Max(a, b) == IF a >= b THEN a ELSE b
Min(a, b) == IF a <= b THEN a ELSE b

IntW(n) == [num |-> n, den |-> 1]

(***************************************************************************)
(* RatingWeights.__init__, lines 64-68: the five fields as passed.         *)
(***************************************************************************)
RatingWeightsFields(a) ==
    [priceWeight           |-> IntW(a.price_weight),
     durationWeight        |-> IntW(a.duration_weight),
     lateArrivalWeight     |-> IntW(a.late_arrival_weight),
     earlyDepartureWeight  |-> IntW(a.early_departure_weight),
     nonDirectFlightWeight |-> IntW(a.non_direct_flight_weight)]

(***************************************************************************)
(* RatingWeights._correct_weights.                                         *)
(***************************************************************************)
ClampNoUpper(x) == Max(minValue, x)
Clamp(x) == Max(minValue, Min(x, maxValue))

correct_weights_no_upper(w) ==
    [k \in WeightNames |-> IntW(ClampNoUpper(w[k].num))]

correct_weights(w) ==
    [k \in WeightNames |-> IntW(Clamp(w[k].num))]

(***************************************************************************)
(* RatingWeights._normalize_weights.                                       *)
(***************************************************************************)
weights_sum(w) ==
    w.priceWeight.num + w.durationWeight.num + w.lateArrivalWeight.num
        + w.earlyDepartureWeight.num + w.nonDirectFlightWeight.num

normalize_weights_partial(w) ==
    LET s == w.priceWeight.num + w.durationWeight.num + w.lateArrivalWeight.num
                 + w.earlyDepartureWeight.num
    IN  IF s # 0
        THEN [k \in WeightNames |-> [num |-> w[k].num, den |-> s]]
        ELSE w

normalize_weights_uniform(w) ==
    LET s == weights_sum(w)
    IN  IF s # 0
        THEN [k \in WeightNames |-> [num |-> w[k].num, den |-> s]]
        ELSE [k \in WeightNames |-> [num |-> 1, den |-> 5]]

normalize_weights(w) ==
    LET s == weights_sum(w)
    IN  IF s # 0
        THEN [k \in WeightNames |-> [num |-> w[k].num, den |-> s]]
        ELSE w

RatingWeights(a) == normalize_weights(correct_weights(RatingWeightsFields(a)))

(***************************************************************************)
(* Natural numbers of any size: sequences of limbs below 2^14, least       *)
(* significant first, without leading zero limbs.                          *)
(***************************************************************************)
Base == 2 ^ 14

RECURSIVE FloorLog2(_)
FloorLog2(n) == IF n <= 1 THEN 0 ELSE 1 + FloorLog2(n \div 2)

At(s, i) == IF i \in 1..Len(s) THEN s[i] ELSE 0

RECURSIVE Trim(_)
Trim(s) ==
    IF s = <<>> THEN s
    ELSE IF s[Len(s)] = 0 THEN Trim(SubSeq(s, 1, Len(s) - 1)) ELSE s

BitLen(s) ==
    IF s = <<>> THEN 0 ELSE 14 * (Len(s) - 1) + FloorLog2(s[Len(s)]) + 1

\* The limbs s plus the carry c, each limb brought below 2^14.
RECURSIVE Carried(_, _)
Carried(s, c) ==
    IF s = <<>>
    THEN IF c = 0 THEN <<>> ELSE <<c % Base>> \o Carried(<<>>, c \div Base)
    ELSE LET v == s[1] + c
         IN  <<v % Base>> \o Carried(Tail(s), v \div Base)

BigAdd(a, b) ==
    Trim(Carried([i \in 1..Max(Len(a), Len(b)) |-> At(a, i) + At(b, i)], 0))

\* a - b for a >= b.
BigSub(a, b) ==
    Trim(Carried([i \in 1..Max(Len(a), Len(b)) |-> At(a, i) - At(b, i)], 0))

BigLess(a, b) ==
    \E i \in 1..Max(Len(a), Len(b)) :
        /\ At(a, i) < At(b, i)
        /\ \A j \in (i + 1)..Max(Len(a), Len(b)) : At(a, j) = At(b, j)

RECURSIVE Column(_, _, _, _)
Column(a, b, k, i) ==
    IF i > Len(a) THEN 0
    ELSE At(a, i) * At(b, k + 1 - i) + Column(a, b, k, i + 1)

\* a * b, for a of at most 4 limbs.
BigMul(a, b) ==
    IF a = <<>> \/ b = <<>> THEN <<>>
    ELSE Trim(Carried([k \in 1..(Len(a) + Len(b) - 1) |->
                           Column(a, b, k, 1)], 0))

\* s * 2^k
ShiftLeft(s, k) ==
    LET q == k \div 14
        lo == 2 ^ (k % 14)
        hi == 2 ^ (14 - (k % 14))
    IN  IF k = 0 THEN s
        ELSE Trim([i \in 1..(Len(s) + q + 1) |->
                      (At(s, i - q) % hi) * lo + (At(s, i - q - 1) \div hi)])

\* s \div 2^k
ShiftRight(s, k) ==
    LET q == k \div 14
        lo == 2 ^ (k % 14)
        hi == 2 ^ (14 - (k % 14))
    IN  IF k = 0 THEN s
        ELSE Trim([i \in 1..Max(Len(s) - q, 0) |->
                      (At(s, i + q) \div lo) + (At(s, i + q + 1) % lo) * hi])

\* s % 2^k = 0
LowBitsZero(s, k) ==
    /\ \A i \in 1..(k \div 14) : At(s, i) = 0
    /\ At(s, (k \div 14) + 1) % (2 ^ (k % 14)) = 0

BigOdd(s) == At(s, 1) % 2 = 1

\* The value of s, for s below 2^31.
IntOfBig(s) == At(s, 1) + Base * At(s, 2) + Base * Base * At(s, 3)

(***************************************************************************)
(* binary64 arithmetic: Python's float /, * and + and float(str).          *)
(***************************************************************************)
Zero == [neg |-> FALSE, m |-> <<>>, e |-> 0]

\* The double nearest to +-(N + a little more, if sticky) * 2^e, ties to
\* even.  With sticky, N has at least 54 bits.
RoundToDouble(neg, N, e, sticky) ==
    LET len == BitLen(N)
    IN  IF len = 0 THEN Zero
        ELSE IF len <= 53
        THEN [neg |-> neg, m |-> ShiftLeft(N, 53 - len), e |-> e - (53 - len)]
        ELSE LET sh == len - 53
                 q2 == ShiftRight(N, sh - 1)
                 q == ShiftRight(q2, 1)
                 more == sticky \/ ~LowBitsZero(N, sh - 1)
                 up == BigOdd(q2) /\ (more \/ BigOdd(q))
                 r == IF up THEN BigAdd(q, <<1>>) ELSE q
             IN  IF BitLen(r) = 54
                 THEN [neg |-> neg, m |-> ShiftRight(r, 1), e |-> e + sh + 1]
                 ELSE [neg |-> neg, m |-> r, e |-> e + sh]

\* Long division by 1 <= d < 2^14 of the base-2^14 digits given most
\* significant first: the quotient, least significant limb first, and the
\* remainder.
RECURSIVE LongDiv(_, _, _, _)
LongDiv(digits, d, r, acc) ==
    IF digits = <<>> THEN [q |-> acc, r |-> r]
    ELSE LET cur == r * Base + Head(digits)
         IN  LongDiv(Tail(digits), d, cur % d, <<cur \div d>> \o acc)

\* n / d for ints n and 1 <= d < 2^14, and float("n/d written in decimal")
\* for d a power of ten: the double nearest to the quotient.
DoubleDiv(n, d) ==
    IF n = 0 THEN Zero
    ELSE LET a == IF n < 0 THEN -n ELSE n
             digits == <<a \div (Base * Base), (a \div Base) % Base, a % Base,
                         0, 0, 0, 0, 0, 0>>
             res == LongDiv(digits, d, 0, <<>>)
         IN  RoundToDouble(n < 0, Trim(res.q), -84, res.r # 0)

DoubleMul(x, y) ==
    IF x.m = <<>> \/ y.m = <<>> THEN Zero
    ELSE RoundToDouble(x.neg # y.neg, BigMul(x.m, y.m), x.e + y.e, FALSE)

DoubleAdd(x, y) ==
    IF x.m = <<>> THEN y
    ELSE IF y.m = <<>> THEN x
    ELSE LET e == Min(x.e, y.e)
             a == ShiftLeft(x.m, x.e - e)
             b == ShiftLeft(y.m, y.e - e)
         IN  IF x.neg = y.neg THEN RoundToDouble(x.neg, BigAdd(a, b), e, FALSE)
             ELSE IF BigLess(a, b)
                  THEN RoundToDouble(y.neg, BigSub(b, a), e, FALSE)
                  ELSE RoundToDouble(x.neg, BigSub(a, b), e, FALSE)

\* x < y for doubles x, y >= 0.
DoubleLess(x, y) ==
    /\ y.m # <<>>
    /\ \/ x.m = <<>>
       \/ x.e < y.e
       \/ x.e = y.e /\ BigLess(x.m, y.m)

DoubleOne == [neg |-> FALSE, m |-> <<0, 0, 0, 1024>>, e |-> -52]

\* The float held by a weight field.
Dbl(x) == DoubleDiv(x.num, x.den)

\* The floats held by the five fields.
Doubles(w) == [k \in WeightNames |-> Dbl(w[k])]

\* priceWeight + durationWeight + ... evaluated left to right in floats,
\* for the floats d of the five fields.
DoubleSum(d) ==
    DoubleAdd(DoubleAdd(DoubleAdd(DoubleAdd(d.priceWeight,
        d.durationWeight), d.lateArrivalWeight),
        d.earlyDepartureWeight), d.nonDirectFlightWeight)

(***************************************************************************)
(* The class RatingWeights on its own: construction in three steps.        *)
(***************************************************************************)
\* Every weight in range, and the weights MaxOver below and above the range.
OverWeights ==
    {minValue - MaxOver} \cup (minValue..maxValue) \cup {maxValue + MaxOver}

Arguments(w, direct) ==
    [k \in ArgNames \cup {"is_flights_direct"} |->
        IF k = "is_flights_direct" THEN direct ELSE w[k]]

NoWeights == [k \in WeightNames |-> IntW(0)]

InitWeights ==
    /\ pc = "new"
    /\ \E w \in [ArgNames -> OverWeights] : args = Arguments(w, FALSE)
    /\ rating_weights = NoWeights
    /\ response = <<>>
    /\ flights = <<>>
    /\ apiCalls = 0
    /\ caught = FALSE

AssignFields ==
    /\ pc = "new"
    /\ rating_weights' = RatingWeightsFields(args)
    /\ pc' = "assigned"
    /\ UNCHANGED <<args, response, flights, apiCalls, caught>>

CorrectWeights ==
    /\ pc = "assigned"
    /\ rating_weights' = correct_weights(rating_weights)
    /\ pc' = "corrected"
    /\ UNCHANGED <<args, response, flights, apiCalls, caught>>

NormalizeWeights ==
    /\ pc = "corrected"
    /\ rating_weights' = normalize_weights(rating_weights)
    /\ pc' = "normalized"
    /\ UNCHANGED <<args, response, flights, apiCalls, caught>>

NextWeights == AssignFields \/ CorrectWeights \/ NormalizeWeights

SpecWeights == InitWeights /\ [][NextWeights]_vars

(***************************************************************************)
(* datetime helpers.                                                       *)
(***************************************************************************)
\* datetime.hour
Hour(t) == (t \div 3600) % 24

\* strftime("%d/%m/%Y %H:%M"): the day, the hour and the minute; the
\* seconds are dropped.
Strftime(t) == [d |-> t \div 86400, H |-> Hour(t), M |-> (t \div 60) % 60]

Last(s) == s[Len(s)]

(***************************************************************************)
(* calculate_rating, evaluated in floats as the code evaluates it.         *)
(***************************************************************************)
\* round(x, 2), in hundredths: the integer nearest to 100 times the exact
\* value of the double x, ties to even (Python rounds the exact binary value
\* correctly, and a double is rarely half-way).
Round2(x) ==
    IF x.m = <<>> THEN 0
    ELSE LET N == BigMul(x.m, <<100>>)
             sh == -x.e
             q == ShiftRight(N, sh)
             roundbit == At(ShiftRight(N, sh - 1), 1) % 2 = 1
             more == ~LowBitsZero(N, sh - 1)
             up == roundbit /\ (more \/ BigOdd(q))
             v == IntOfBig(q) + (IF up THEN 1 ELSE 0)
         IN  IF x.neg THEN -v ELSE v

\* lines 142-148: the five products, added left to right.
WeightedSum(price, duration, late, early, nondirect, w) ==
    DoubleAdd(DoubleAdd(DoubleAdd(DoubleAdd(
        DoubleMul(Dbl(w.priceWeight), price),
        DoubleMul(Dbl(w.durationWeight), duration)),
        DoubleMul(Dbl(w.lateArrivalWeight), DoubleDiv(late, 1))),
        DoubleMul(Dbl(w.earlyDepartureWeight), DoubleDiv(early, 1))),
        DoubleMul(Dbl(w.nonDirectFlightWeight), DoubleDiv(nondirect, 1)))

calculate_rating_late_gt(flight, w) ==
    LET segments == flight.itineraries[1].segments
        price == DoubleDiv(flight.price.total, 1000)
        departure_time == segments[1].departure.at
        arrival_time == Last(segments).arrival.at
        isFlightNonDirect == IF Len(segments) > 1 THEN Penalty ELSE 0
        duration == DoubleDiv(arrival_time - departure_time, 3600)
        late_arrival_penalty ==
            IF Hour(arrival_time) > LateHour THEN Penalty ELSE 0
        early_departure_penalty ==
            IF Hour(departure_time) < EarlyHour THEN Penalty ELSE 0
        rating == WeightedSum(price, duration, late_arrival_penalty,
                              early_departure_penalty, isFlightNonDirect, w)
    IN  Round2(rating)

calculate_rating_no_stop_term(flight, w) ==
    LET segments == flight.itineraries[1].segments
        price == DoubleDiv(flight.price.total, 1000)
        departure_time == segments[1].departure.at
        arrival_time == Last(segments).arrival.at
        duration == DoubleDiv(arrival_time - departure_time, 3600)
        late_arrival_penalty ==
            IF Hour(arrival_time) >= LateHour THEN Penalty ELSE 0
        early_departure_penalty ==
            IF Hour(departure_time) < EarlyHour THEN Penalty ELSE 0
        rating == WeightedSum(price, duration, late_arrival_penalty,
                              early_departure_penalty, 0, w)
    IN  Round2(rating)

calculate_rating(flight, w) ==
    LET segments == flight.itineraries[1].segments
        \* float(flight['price']['total'])
        price == DoubleDiv(flight.price.total, 1000)
        departure_time == segments[1].departure.at
        arrival_time == Last(segments).arrival.at
        isFlightNonDirect == IF Len(segments) > 1 THEN Penalty ELSE 0
        \* (arrival_time - departure_time).total_seconds() / 3600
        duration == DoubleDiv(arrival_time - departure_time, 3600)
        late_arrival_penalty ==
            IF Hour(arrival_time) >= LateHour THEN Penalty ELSE 0
        early_departure_penalty ==
            IF Hour(departure_time) < EarlyHour THEN Penalty ELSE 0
        rating == WeightedSum(price, duration, late_arrival_penalty,
                              early_departure_penalty, isFlightNonDirect, w)
    IN  Round2(rating)

(***************************************************************************)
(* The loop body of get_flights_data: one summary per offer.               *)
(***************************************************************************)
flight_info(flight, w) ==
    LET segments == flight.itineraries[1].segments
    IN  [price         |-> flight.price.total,
         departure     |-> Strftime(segments[1].departure.at),
         arrival       |-> Strftime(Last(segments).arrival.at),
         airline       |-> segments[1].carrierCode,
         flight_number |-> segments[1].number,
         is_direct     |-> IF Len(segments) > 1 THEN FALSE ELSE TRUE,
         rating        |-> calculate_rating(flight, w)]

parse_response(data, w) ==
    [i \in 1..Len(data) |-> flight_info(data[i], w)]

(***************************************************************************)
(* flights.sort(key=lambda x: x['rating']): a stable ascending sort.       *)
(***************************************************************************)
RECURSIVE InsertByRating(_, _)
InsertByRating(x, s) ==
    IF s = <<>> THEN <<x>>
    ELSE IF Head(s).rating <= x.rating
         THEN <<Head(s)>> \o InsertByRating(x, Tail(s))
         ELSE <<x>> \o s

RECURSIVE InsertUniqueRating(_, _)
InsertUniqueRating(x, s) ==
    IF s = <<>> THEN <<x>>
    ELSE IF Head(s).rating < x.rating
         THEN <<Head(s)>> \o InsertUniqueRating(x, Tail(s))
         ELSE IF Head(s).rating = x.rating THEN s
         ELSE <<x>> \o s

RECURSIVE sort_unique_rating(_)
sort_unique_rating(s) ==
    IF s = <<>> THEN <<>>
    ELSE InsertUniqueRating(Last(s), sort_unique_rating(SubSeq(s, 1, Len(s) - 1)))

sort_nothing(s) == s

RECURSIVE sort_by_rating(_)
sort_by_rating(s) ==
    IF s = <<>> THEN <<>>
    ELSE InsertByRating(Last(s), sort_by_rating(SubSeq(s, 1, Len(s) - 1)))

(***************************************************************************)
(* The inputs: the arguments of the call and the API's answers.            *)
(***************************************************************************)
\* The weight arguments of a call: the default 0 and one other value for
\* each, and for the price a weight below the range, one in it and one
\* above it.
ArgDomain ==
    [price_weight             |-> {-1, 0, 2, 6},
     duration_weight          |-> {0, 6},
     late_arrival_weight      |-> {0, 2},
     early_departure_weight   |-> {0, 1},
     non_direct_flight_weight |-> {0, 3}]

ArgWeights == {w \in [ArgNames -> -1..6] : \A a \in ArgNames : w[a] \in ArgDomain[a]}

Segment(carrier, number, dep, arr) ==
    [carrierCode |-> carrier, number |-> number,
     departure |-> [at |-> dep], arrival |-> [at |-> arr]]

Offer(total, segments) ==
    [price |-> [total |-> total], itineraries |-> <<[segments |-> segments]>>]

\* Day 1 starts at second 86400.
Catalogue ==
    { \* direct, 06:00:00 -> 08:24:00, 100.004
      Offer(100004, <<Segment("MS", "985", 108000, 116640)>>),
      \* direct, 05:10:00 -> 09:10:00, 100.000
      Offer(100000, <<Segment("LH", "583", 105000, 119400)>>),
      \* one stop, 17:00:00 -> 19:00:00, 20:00:00 -> 22:04:00, 80.50
      Offer(80500, <<Segment("TK", "691", 147600, 154800),
                     Segment("TK", "1587", 158400, 165840)>>),
      \* one stop, 23:30:00 -> 02:10:00, 04:00:00 -> 06:42:30 next day, 250.00
      Offer(250000, <<Segment("BA", "154", 171000, 180600),
                      Segment("BA", "902", 187200, 196950)>>),
      \* direct, 05:59:00 -> 21:59:00, 45.925
      Offer(45925, <<Segment("EK", "924", 107940, 165540)>>) }

Responses == UNION {[1..n -> Catalogue] : n \in 0..MaxOffers}

(***************************************************************************)
(* get_flights_data: one call of the tool.                                 *)
(***************************************************************************)
Init ==
    /\ pc = "call"
    /\ \E w \in ArgWeights, direct \in BOOLEAN :
          args = Arguments(w, direct)
    /\ rating_weights = NoWeights
    /\ response = <<>>
    /\ flights = <<>>
    /\ apiCalls = 0
    /\ caught = FALSE

\* The API answers; lines 102-170.
get_flights_data_ok ==
    /\ pc = "call"
    /\ \E data \in Responses :
          /\ response' = data
          /\ rating_weights' = RatingWeights(args)
          /\ flights' = sort_by_rating(parse_response(data, RatingWeights(args)))
    /\ apiCalls' = apiCalls + 1
    /\ caught' = FALSE
    /\ pc' = "returned"
    /\ UNCHANGED args

get_flights_data_error_retry ==
    /\ pc = "call"
    /\ apiCalls' = apiCalls + 2
    /\ caught' = TRUE
    /\ flights' = <<>>
    /\ pc' = "returned"
    /\ UNCHANGED <<args, rating_weights, response>>

\* The API raises ResponseError; lines 102-110 and 172-174.
get_flights_data_error ==
    /\ pc = "call"
    /\ apiCalls' = apiCalls + 1
    /\ caught' = TRUE
    /\ flights' = <<>>
    /\ pc' = "returned"
    /\ UNCHANGED <<args, rating_weights, response>>

Next == get_flights_data_ok \/ get_flights_data_error

Spec == Init /\ [][Next]_vars

(***************************************************************************)
(* What the properties below compare the program's state with: the         *)
(* arguments of the call, clamped, and the offers of the response.         *)
(***************************************************************************)
ArgOf ==
    [priceWeight           |-> "price_weight",
     durationWeight        |-> "duration_weight",
     lateArrivalWeight     |-> "late_arrival_weight",
     earlyDepartureWeight  |-> "early_departure_weight",
     nonDirectFlightWeight |-> "non_direct_flight_weight"]

Clamped(k) ==
    LET a == args[ArgOf[k]]
    IN  IF a < 0 THEN 0 ELSE IF a > 5 THEN 5 ELSE a

ClampedSum ==
    Clamped("priceWeight") + Clamped("durationWeight")
        + Clamped("lateArrivalWeight") + Clamped("earlyDepartureWeight")
        + Clamped("nonDirectFlightWeight")

\* The weighted sums below are in units of 1 / Den hundredths.
Den == 180 * (IF ClampedSum = 0 THEN 1 ELSE ClampedSum)

Segments(o) == o.itineraries[1].segments
DepartureOf(o) == Segments(o)[1].departure.at
ArrivalOf(o) == Segments(o)[Len(Segments(o))].arrival.at

\* The summary f was made from the offer o.
Matches(f, o) ==
    /\ f.price = o.price.total
    /\ f.airline = Segments(o)[1].carrierCode
    /\ f.flight_number = Segments(o)[1].number

\* The price, duration and schedule terms of the sum, in those units.
BaseTerms(o) ==
    18 * Clamped("priceWeight") * o.price.total
    + 5 * Clamped("durationWeight") * (ArrivalOf(o) - DepartureOf(o))
    + 18000 * Clamped("lateArrivalWeight")
            * (IF Hour(ArrivalOf(o)) >= 22 THEN 20 ELSE 0)
    + 18000 * Clamped("earlyDepartureWeight")
            * (IF Hour(DepartureOf(o)) < 6 THEN 20 ELSE 0)

StopTerm(o) ==
    18000 * Clamped("nonDirectFlightWeight")
          * (IF Len(Segments(o)) > 1 THEN 20 ELSE 0)

Abs(x) == IF x < 0 THEN -x ELSE x

Returned == pc = "returned" /\ ~caught

Count(s, x) == Cardinality({i \in DOMAIN s : s[i] = x})

\* C1: the returned list is in non-decreasing order of rating.
C1_SortedByRating ==
    pc = "returned" =>
        \A i \in 1..(Len(flights) - 1) :
            flights[i].rating <= flights[i + 1].rating

\* C1: the sort moved an offer that the response listed first.
C1_Witness ==
    /\ Returned
    /\ Len(flights) >= 2
    /\ flights[1].rating < flights[2].rating
    /\ ~Matches(flights[1], response[1])

\* C2 as stated: every rating is exactly the weighted sum of price, duration
\* in hours and the three penalties of 20, under the normalised weights.
C2_RatingIsWeightedSum ==
    Returned =>
        \A i \in DOMAIN flights : \E j \in DOMAIN response :
            /\ Matches(flights[i], response[j])
            /\ flights[i].rating * Den
                   = BaseTerms(response[j]) + StopTerm(response[j])

\* C2 as amended: every rating is that weighted sum rounded to the nearest
\* hundredth (at most 0.005 away from it, and a whole number of hundredths).
C2_RatingIsRoundedWeightedSum ==
    Returned =>
        \A i \in DOMAIN flights : \E j \in DOMAIN response :
            /\ Matches(flights[i], response[j])
            /\ 2 * Abs(flights[i].rating * Den
                       - (BaseTerms(response[j]) + StopTerm(response[j])))
                   <= Den

\* C2: a rating that rounding changed, of a late-arriving offer whose
\* lateness is weighted.
C2_Witness ==
    /\ Returned
    /\ Clamped("lateArrivalWeight") > 0
    /\ Clamped("priceWeight") > 0
    /\ Clamped("durationWeight") > 0
    /\ \E i \in DOMAIN flights : \E j \in DOMAIN response :
          /\ Matches(flights[i], response[j])
          /\ Hour(ArrivalOf(response[j])) = 22
          /\ flights[i].rating * Den
                 # BaseTerms(response[j]) + StopTerm(response[j])

\* C3: after _correct_weights every weight is in [0,5]: 0 for an argument
\* below 0, 5 for one above 5, the argument itself otherwise.
C3_ClampedInRange ==
    pc = "corrected" =>
        \A k \in WeightNames :
            LET a == args[ArgOf[k]]
                v == rating_weights[k]
            IN  /\ v.den = 1
                /\ v.num \in 0..5
                /\ (a < 0 => v.num = 0)
                /\ (a > 5 => v.num = 5)
                /\ (a \in 0..5 => v.num = a)

\* C3: weights corrected from one argument below 0, one above 5 and one
\* strictly inside the range.
C3_Witness ==
    /\ pc = "corrected"
    /\ args.price_weight < 0
    /\ args.duration_weight > 5
    /\ args.late_arrival_weight \in 1..4
    /\ rating_weights.priceWeight.num = 0
    /\ rating_weights.durationWeight.num = 5

NormalizedCase == pc = "normalized" /\ ClampedSum # 0

\* C4 as stated: with a nonzero clamped sum, the five float weights sum to
\* exactly 1, each is its clamped value over the clamped sum, and their
\* order is the order of the clamped values.
C4_SumIsExactlyOne ==
    NormalizedCase =>
        LET d == Doubles(rating_weights)
        IN  /\ DoubleSum(d) = DoubleOne
            /\ \A k \in WeightNames :
                  rating_weights[k] = [num |-> Clamped(k), den |-> ClampedSum]
            /\ \A j, k \in WeightNames :
                  Clamped(j) < Clamped(k) => DoubleLess(d[j], d[k])

\* The distance of the double x from 1.0 is at most 2^-52 (x - 1.0 is exact
\* for x that close to 1).
NearOne(x) ==
    LET d == DoubleAdd(x, [neg |-> TRUE, m |-> DoubleOne.m, e |-> DoubleOne.e])
    IN  \/ d.m = <<>>
        \/ d.e < -104
        \/ d.e = -104 /\ d.m = DoubleOne.m

\* C4 as amended: with a nonzero clamped sum, each weight is the float
\* quotient of its clamped value by the clamped sum, the quotients sum to 1
\* as fractions and to within 2^-52 of 1 as floats added in field order, and
\* their order is the order of the clamped values.
C4_SumIsOneUpToRounding ==
    NormalizedCase =>
        LET d == Doubles(rating_weights)
        IN  /\ \A k \in WeightNames :
                  rating_weights[k] = [num |-> Clamped(k), den |-> ClampedSum]
            /\ weights_sum(rating_weights) = rating_weights.priceWeight.den
            /\ NearOne(DoubleSum(d))
            /\ \A j, k \in WeightNames :
                  /\ Clamped(j) < Clamped(k) => DoubleLess(d[j], d[k])
                  /\ Clamped(j) = Clamped(k) => d[j] = d[k]

\* C4: normalised weights whose float sum is not 1.0, from arguments that
\* were clamped on both sides.
C4_Witness ==
    /\ NormalizedCase
    /\ args.price_weight < 0
    /\ args.duration_weight > 5
    /\ DoubleSum(Doubles(rating_weights)) # DoubleOne

\* C5: when no weight argument is positive, normalisation is skipped, every
\* weight stays the int 0, one summary per offer is returned and every
\* rating is 0.
C5_ZeroWeightsZeroRating ==
    (Returned /\ \A a \in ArgNames : args[a] <= 0) =>
        /\ \A k \in WeightNames : rating_weights[k] = [num |-> 0, den |-> 1]
        /\ Len(flights) = Len(response)
        /\ \A i \in DOMAIN flights : flights[i].rating = 0

\* C5: the default weights, and weights below 0, with two offers of
\* different prices.
C5_Witness ==
    /\ Returned
    /\ \A a \in ArgNames : args[a] <= 0
    /\ args.price_weight < 0
    /\ args.duration_weight = 0
    /\ Len(flights) >= 2
    /\ flights[1].price # flights[2].price
    /\ flights[1].is_direct # flights[2].is_direct

\* C6: when the API call raises, the error is caught and the tool returns
\* an empty list after a single call of the API.
C6_ErrorReturnsEmpty ==
    caught =>
        /\ pc = "returned"
        /\ flights = <<>>
        /\ response = <<>>
        /\ apiCalls = 1

\* C6: a call whose API request failed.
C6_Witness ==
    /\ pc = "returned"
    /\ caught
    /\ apiCalls = 1

\* C7: a summary is flagged direct exactly when its offer has one segment,
\* and its rating holds the penalty 20 * nonDirectFlightWeight exactly when
\* it is flagged non-direct.
C7_DirectFlagAndPenalty ==
    Returned =>
        \A i \in DOMAIN flights : \E j \in DOMAIN response :
            LET f == flights[i]
                o == response[j]
                penalty == IF f.is_direct THEN 0
                           ELSE 18000 * 20 * Clamped("nonDirectFlightWeight")
            IN  /\ Matches(f, o)
                /\ f.is_direct <=> (Len(Segments(o)) = 1)
                /\ ~f.is_direct <=> (Len(Segments(o)) > 1)
                /\ 2 * Abs(f.rating * Den - (BaseTerms(o) + penalty)) <= Den

\* C7: a direct and a non-direct summary under a positive non-direct weight.
C7_Witness ==
    /\ Returned
    /\ Clamped("nonDirectFlightWeight") > 0
    /\ \E i, j \in DOMAIN flights :
          flights[i].is_direct /\ ~flights[j].is_direct

\* C8: with is_flights_direct set, every returned summary is direct.
C8_OnlyDirectWhenRequested ==
    (Returned /\ args.is_flights_direct) =>
        \A i \in DOMAIN flights : flights[i].is_direct

OnlyPriceWeighted ==
    /\ args.price_weight > 0
    /\ \A a \in ArgNames \ {"price_weight"} : args[a] <= 0

\* C9: when price_weight is the only positive weight, the returned list is
\* in non-decreasing order of price.
C9_PriceOrder ==
    (Returned /\ OnlyPriceWeighted) =>
        \A i, j \in DOMAIN flights :
            i < j => flights[i].price <= flights[j].price

\* The summary f holds the fields of the offer o: its price, carrier,
\* number, departure and arrival to the minute, directness, and its weighted
\* sum to the hundredth.
IsSummaryOf(f, o) ==
    /\ Matches(f, o)
    /\ f.departure = [d |-> DepartureOf(o) \div 86400,
                      H |-> (DepartureOf(o) \div 3600) % 24,
                      M |-> (DepartureOf(o) \div 60) % 60]
    /\ f.arrival = [d |-> ArrivalOf(o) \div 86400,
                    H |-> (ArrivalOf(o) \div 3600) % 24,
                    M |-> (ArrivalOf(o) \div 60) % 60]
    /\ f.is_direct = (Len(Segments(o)) = 1)
    /\ 2 * Abs(f.rating * Den - (BaseTerms(o) + StopTerm(o))) <= Den

\* C10: on success the returned list has one summary per offer: as many
\* entries as the response has offers, and for each offer as many summaries
\* with that offer's fields as the response has copies of the offer.
C10_PermutationOfSummaries ==
    Returned =>
        /\ Len(flights) = Len(response)
        /\ \A j \in DOMAIN response :
              Cardinality({i \in DOMAIN flights :
                              IsSummaryOf(flights[i], response[j])})
                  = Count(response, response[j])

\* C10: two different offers with equal nonzero ratings were both kept.
C10_Witness ==
    /\ Returned
    /\ Len(flights) >= 2
    /\ flights[1].rating = flights[2].rating
    /\ flights[1].rating > 0
    /\ flights[1] # flights[2]

=============================================================================
